---- MODULE Spec2Model ----
(***************************************************************************)
(* Model of the internal client: the connection/retry state machine of     *)
(* InternalClient (both variants of the class) and the length-prefixed     *)
(* framing of Request.                                                     *)
(*                                                                         *)
(* Two specifications live in this module:                                 *)
(*   Spec      - one client instance driven by a single caller, against a  *)
(*               transport and server that answer nondeterministically;    *)
(*   FrameSpec - one Request.send_request() call, byte by byte, against a  *)
(*               peer that delivers an arbitrary stream in arbitrary chunks*)
(***************************************************************************)
EXTENDS Integers, Sequences, FiniteSets, TLC

(***************************************************************************)
(* Bounds of the model.                                                    *)
(***************************************************************************)
\* CONNECTION_RETRY_COUNT and SEND_RETRY_COUNT are class attributes (1 and 1
\* in internal_client/InternalClient.py, 2 and 2 in client_lib): the model
\* draws them from 1..Max*.
MaxConnectionRetryCount == 2
MaxSendRetryCount == 2

(***************************************************************************)
(* Inputs.                                                                 *)
(***************************************************************************)
\* The two copies of the class.
Variants == {"internal_client", "client_lib"}
\* Status payloads a caller passes, command payloads a server answers.
StatusData == {"status1", "status2"}
Commands == {"", "cmd1"}
Timeouts == {-1, 0}

\* DeviceConnectResponse.responseType values the server answers: 0 is OK, 1..4
\* are the rejections, 5 is a value the client does not know.
ResponseTypes == 0..5

\* What socket.create_connection() does.
ConnectOutcomes == {"connected", "timeout", "refused"}
\* How Request.send_request() fails on an open connection: sendall() times
\* out, sendall()/recv() raise a ConnectionError, recv() times out, the peer
\* closes before the frame is complete. Otherwise the "response" arrives.
RequestFailures == {"send_timeout", "conn_error", "recv_timeout", "truncated"}

\* A parsed InternalServer message, as far as the client reads it.
\* has = FALSE: the field the client asks for is not set.
NoReply == [has |-> FALSE, code |-> 0, data |-> ""]
ConnectReplies ==
    {NoReply} \cup {[has |-> TRUE, code |-> c, data |-> ""] : c \in ResponseTypes}
CommandReplies ==
    {NoReply} \cup {[has |-> TRUE, code |-> 0, data |-> d] : d \in Commands}

\* One attempt of the connect loop, as the transport and the server decide it.
AttemptOutcomes ==
    {[connect |-> c, request |-> "none", reply |-> NoReply] :
        c \in ConnectOutcomes \ {"connected"}}
    \cup {[connect |-> "connected", request |-> r, reply |-> NoReply] : r \in RequestFailures}
    \cup {[connect |-> "connected", request |-> "response", reply |-> rp] : rp \in ConnectReplies}

\* What an observer of the transport saw of an attempt: the connect or a
\* send/recv timed out, the connect was refused, the open connection broke,
\* the answer was no usable connect response (code: the responseType when it
\* carried one, 0 otherwise), or a connect response with a code in 0..4 arrived.
Observed(o) ==
    CASE o.connect = "timeout" \/ o.request \in {"send_timeout", "recv_timeout"}
            -> [kind |-> "timeout", code |-> 0]
      [] o.connect = "refused"      -> [kind |-> "refused", code |-> 0]
      [] o.request = "conn_error"   -> [kind |-> "conn_error", code |-> 0]
      [] o.request = "response" /\ o.reply.has /\ o.reply.code \in 0..4
            -> [kind |-> "reply", code |-> o.reply.code]
      [] o.request = "response" /\ o.reply.has
            -> [kind |-> "malformed", code |-> o.reply.code]
      [] OTHER                      -> [kind |-> "malformed", code |-> 0]

\* One status exchange, as the transport and the server decide it.
ExchangeOutcomes ==
    {[request |-> r, reply |-> NoReply] : r \in RequestFailures}
    \cup {[request |-> "response", reply |-> rp] : rp \in CommandReplies}

(***************************************************************************)
(* exceptions.py                                                           *)
(***************************************************************************)
ConnectExceptions ==
    {"AlreadyConnected", "ModuleNotSupported", "DeviceNotSupported",
     "HigherPriorityAlreadyConnected"}
CommunicationExceptions ==
    {"ConnectionRefused", "CommunicationError", "ServerTookTooLong"}

\* DeviceConnectResponse.ResponseType.OK
OK == 0

VARIABLES
    \* configuration of the instance
    variant, CONNECTION_RETRY_COUNT, SEND_RETRY_COUNT,
    \* fields of the instance
    client_socket,       \* "None", or the state of the socket object it refers to: "open" / "closed"
    is_connected,        \* _is_connected (internal_client variant only)
    current_command,     \* "None" or the stored commandData
    \* position of the caller
    pc,                  \* "new", "idle", "establish", "est_exit", "est_done", "retry", "resend", "done", "dead"
    call,                \* the public call in progress
    \* locals of _establish_connection
    tried_count, client_connected, est_last_exception, est_result,
    est_message_tried,   \* the count in "Tried N times" of the exception it raised, else 0
    \* locals of send_status
    tried, last_exception, status_message, timeout,
    command_res,         \* <<>>, or <<r>> for the parsed response r of the status request
    \* outcome of the call in progress, as the caller sees it
    raised, returned,
    \* history of the call in progress (not program state)
    entry,               \* the fields when the call started
    attempts,            \* what was observed of each attempt of the _establish_connection in progress
    iterations,          \* what each retry iteration of send_status ended with
    connects,            \* create_connection() calls made by the call
    status_sends,        \* status messages put on a connection by the call
    sent_status,         \* the payloads of those messages
    orphaned,            \* connections the call opened and dropped without closing
    closes,              \* close() calls the call made on a socket object
    handshaken,          \* client_socket is an open connection whose handshake answered OK
    delivered_command,   \* commandData of the last response that carried a deviceCommand
    \* Request.send_request (FrameSpec)
    message,             \* Request.message
    header_len,          \* Request.header_len
    response_buff, expected_response_len, retrieved,   \* locals of _retrieve
    fpc,                 \* "off", "send", "header", "header_end", "payload", "payload_end", "done"
    result,              \* "None" while it runs, "returned" or the exception raised
    err_expected, err_got,   \* the two counts in the CommunicationError message
    conn_sent,           \* the bytes sendall() wrote
    stream,              \* the bytes the peer sends before it closes or falls silent
    bytes_received,      \* how many of them recv() has handed over
    peer_closed          \* the read loop in which recv() returned b"": "no", "header", "payload"

clientVars ==
    <<variant, CONNECTION_RETRY_COUNT, SEND_RETRY_COUNT, client_socket, is_connected,
      current_command, pc, call, tried_count, client_connected, est_last_exception,
      est_result, est_message_tried, tried, last_exception, status_message, timeout,
      command_res, raised, returned, sent_status, entry, attempts, iterations, connects,
      status_sends, orphaned, closes, handshaken, delivered_command>>

frameVars ==
    <<message, header_len, response_buff, expected_response_len, retrieved, fpc, result,
      err_expected, err_got, conn_sent, stream, bytes_received, peer_closed>>

vars == <<clientVars, frameVars>>

(***************************************************************************)
(* InternalClient: helpers                                                 *)
(***************************************************************************)
\* InternalClient.CONNECT_RESPONSE_EXCEPTIONS
CONNECT_RESPONSE_EXCEPTIONS ==
    [c \in 1..4 |->
        CASE c = 1 -> "AlreadyConnected"
          [] c = 2 -> "ModuleNotSupported"
          [] c = 3 -> "DeviceNotSupported"
          [] c = 4 -> "HigherPriorityAlreadyConnected"]

\* What Request.send_request() raises for a transport outcome ("None": it
\* returns the response). sendall() raises the socket's own timeout, _retrieve
\* turns a recv() timeout into ServerTookTooLong and a short frame into
\* CommunicationError; a ConnectionError of sendall()/recv() passes through.
RequestRaises(request) ==
    CASE request = "send_timeout" -> "TimeoutError"
      [] request = "conn_error"   -> "ConnectionError"
      [] request = "recv_timeout" -> "ServerTookTooLong"
      [] request = "truncated"    -> "CommunicationError"
      [] request = "response"     -> "None"

\* As ConnectionSequenceRaises, but a rejection code is reported as an invalid
\* response (which the connect loop retries).
ConnectionSequenceRaisesInvalid(request, reply) ==
    IF RequestRaises(request) # "None" THEN RequestRaises(request)
    ELSE IF ~reply.has THEN "CommunicationError"
    ELSE IF reply.code = OK THEN "None"
    ELSE "CommunicationError"

\* As ConnectionSequenceRaises, but a responseType without an entry in
\* CONNECT_RESPONSE_EXCEPTIONS passes for OK.
ConnectionSequenceRaisesLenient(request, reply) ==
    IF RequestRaises(request) # "None" THEN RequestRaises(request)
    ELSE IF ~reply.has THEN "CommunicationError"
    ELSE IF reply.code \notin DOMAIN CONNECT_RESPONSE_EXCEPTIONS THEN "None"
    ELSE CONNECT_RESPONSE_EXCEPTIONS[reply.code]

\* _connection_sequence: what it raises for the outcome of the handshake
\* request and the parsed reply ("None": it returns). Reading responseType of
\* a present deviceConnectResponse cannot fail, so the AttributeError clause
\* has no case here.
ConnectionSequenceRaises(request, reply) ==
    IF RequestRaises(request) # "None" THEN RequestRaises(request)
    ELSE IF ~reply.has THEN "CommunicationError"
    ELSE IF reply.code = OK THEN "None"
    ELSE IF reply.code \notin DOMAIN CONNECT_RESPONSE_EXCEPTIONS THEN "CommunicationError"
    ELSE CONNECT_RESPONSE_EXCEPTIONS[reply.code]

\* As AttemptClass, but every failure is remembered as a timeout.
AttemptClassTimeout(exc) == "ServerTookTooLong"

\* The except clauses of the connect loop: the class remembered in
\* last_exception for what the attempt raised.
AttemptClass(exc) ==
    CASE exc \in {"TimeoutError", "ServerTookTooLong"} -> "ServerTookTooLong"
      [] exc = "ConnectionError"                       -> "ConnectionRefused"
      [] exc = "CommunicationError"                    -> "CommunicationError"

\* What one attempt raises inside the try block of the connect loop.
AttemptRaises(o) ==
    CASE o.connect = "timeout" -> "TimeoutError"
      [] o.connect = "refused" -> "ConnectionError"
      [] OTHER                 -> ConnectionSequenceRaises(o.request, o.reply)

\* _send_request: settimeout() on a closed socket object fails with OSError
\* (EBADF); a ConnectionError of the request becomes CommunicationError.
SendRequestRaises(sock, request) ==
    IF sock = "closed" THEN "OSError"
    ELSE IF RequestRaises(request) = "ConnectionError" THEN "CommunicationError"
    ELSE RequestRaises(request)

\* As SendStatusRejects, without the test of the timeout.
SendStatusRejectsDestroyedOnly(sock, t) ==
    IF sock = "None" THEN "ContextAlreadyDestroyed" ELSE "None"

\* The two guards at the top of send_status.
SendStatusRejects(sock, t) ==
    IF sock = "None" THEN "ContextAlreadyDestroyed"
    ELSE IF t < 0 THEN "ValueError"
    ELSE "None"

\* The flag the connect loop's exit tests: the instance field _is_connected in
\* internal_client, the local client_connected in client_lib.
ConnectedFlag == IF variant = "internal_client" THEN is_connected ELSE client_connected

\* As Retried, but the clause takes the ConnectExceptions too.
RetriedAny(exc) == exc \in CommunicationExceptions \cup ConnectExceptions

\* The first except clause of the retry loop of send_status: what it takes.
Retried(exc) == exc \in CommunicationExceptions

\* As RecordLast, but only the first exception is kept.
RecordFirst(previous, e) == IF previous = "unset" THEN e ELSE previous

\* send_status: last_exception = e
RecordLast(previous, e) == e

\* The fields of the instance a call can change.
Fields ==
    [client_socket |-> client_socket, is_connected |-> is_connected,
     current_command |-> current_command]

\* As destroy, but the closed socket is not forgotten.
destroyKeepsHandle ==
    /\ client_socket' = (IF client_socket = "None" THEN "None" ELSE "closed")
    /\ closes' = (IF client_socket # "None" THEN closes + 1 ELSE closes)
    /\ is_connected' = (IF client_socket # "None" /\ variant = "internal_client"
                        THEN FALSE ELSE is_connected)
    /\ handshaken' = FALSE

\* As destroy, but _is_connected is left as it is.
destroyKeepsFlag ==
    /\ client_socket' = "None"
    /\ closes' = (IF client_socket # "None" THEN closes + 1 ELSE closes)
    /\ is_connected' = is_connected
    /\ handshaken' = FALSE

\* As destroy, but close() is called whether or not the field was set to None.
destroyClosesAgain ==
    /\ client_socket' = "None"
    /\ closes' = closes + 1
    /\ is_connected' = (IF client_socket # "None" /\ variant = "internal_client"
                        THEN FALSE ELSE is_connected)
    /\ handshaken' = FALSE

\* destroy(): closes the socket and forgets it, if there is one.
destroy ==
    /\ client_socket' = "None"
    /\ closes' = (IF client_socket # "None" THEN closes + 1 ELSE closes)
    /\ is_connected' = (IF client_socket # "None" /\ variant = "internal_client"
                        THEN FALSE ELSE is_connected)
    /\ handshaken' = FALSE

\* A public call starts: nothing is left of the previous call.
StartCall(name) ==
    /\ call' = name
    /\ entry' = Fields
    /\ connects' = 0
    /\ orphaned' = 0
    /\ iterations' = <<>>

establishLocals ==
    <<tried_count, client_connected, est_last_exception, est_result, est_message_tried,
      attempts>>
sendLocals == <<tried, last_exception, status_message, timeout>>
config == <<variant, CONNECTION_RETRY_COUNT, SEND_RETRY_COUNT>>
callInfo == <<call, entry>>

\* _establish_connection, up to the loop: an existing socket is closed (the
\* field keeps referring to the closed object).
EstablishBegin ==
    /\ client_socket' = (IF client_socket = "None" THEN "None" ELSE "closed")
    /\ closes' = (IF client_socket # "None" THEN closes + 1 ELSE closes)
    /\ handshaken' = FALSE
    /\ tried_count' = 0
    /\ client_connected' = FALSE
    /\ est_last_exception' = "unset"
    /\ est_result' = "running"
    /\ est_message_tried' = 0
    /\ attempts' = <<>>
    /\ pc' = "establish"

(***************************************************************************)
(* InternalClient: the steps of its calls                                  *)
(***************************************************************************)
\* __init__: the fields are set and _establish_connection starts.
Construct ==
    /\ pc = "new"
    /\ StartCall("__init__")
    /\ EstablishBegin
    /\ raised' = "None"
    /\ UNCHANGED <<config, is_connected, current_command, sendLocals, returned,
                   status_sends, sent_status, delivered_command, command_res>>
    /\ UNCHANGED frameVars

\* The else branch of the connect loop: whether a successful attempt leaves
\* the loop (client_lib breaks, internal_client goes on counting).
BreaksOnSuccess == variant = "client_lib"

\* One pass of the connect loop of _establish_connection.
Attempt(o) ==
    /\ pc = "establish"
    /\ tried_count < CONNECTION_RETRY_COUNT
    /\ LET exc == AttemptRaises(o)
           opened == o.connect = "connected"
           left == IF exc = "None" /\ BreaksOnSuccess THEN tried_count ELSE tried_count + 1
       IN
       /\ connects' = connects + 1
       /\ attempts' = Append(attempts, Observed(o))
       /\ client_socket' = (IF opened THEN "open" ELSE client_socket)
       /\ orphaned' = (IF opened /\ client_socket = "open" THEN orphaned + 1 ELSE orphaned)
       /\ handshaken' = (IF opened THEN exc = "None" ELSE handshaken)
       /\ IF exc \in ConnectExceptions
          THEN \* no except clause of the loop takes it: it leaves _establish_connection
               /\ est_result' = exc
               /\ est_message_tried' = 0
               /\ pc' = "est_done"
               /\ UNCHANGED <<tried_count, client_connected, est_last_exception, is_connected>>
          ELSE IF exc = "None"
          THEN /\ is_connected' = (IF variant = "internal_client" THEN TRUE ELSE is_connected)
               /\ client_connected' = (IF variant = "client_lib" THEN TRUE ELSE client_connected)
               /\ tried_count' = left
               /\ pc' = (IF BreaksOnSuccess \/ left >= CONNECTION_RETRY_COUNT
                         THEN "est_exit" ELSE "establish")
               /\ UNCHANGED <<est_last_exception, est_result, est_message_tried>>
          ELSE /\ est_last_exception' = AttemptClass(exc)
               /\ tried_count' = left
               /\ pc' = (IF left >= CONNECTION_RETRY_COUNT THEN "est_exit" ELSE "establish")
               /\ UNCHANGED <<client_connected, est_result, est_message_tried,
                              is_connected>>
    /\ UNCHANGED <<config, current_command, callInfo, sendLocals, raised, returned,
                   iterations, status_sends, sent_status, closes, delivered_command,
                   command_res>>
    /\ UNCHANGED frameVars

\* _establish_connection after the loop: without the connected flag it
\* destroys the context and raises the last recorded class.
EstablishExit ==
    /\ pc = "est_exit"
    /\ IF ~ConnectedFlag
       THEN /\ destroy
            /\ est_result' = est_last_exception
            /\ est_message_tried' = CONNECTION_RETRY_COUNT
       ELSE /\ est_result' = "returned"
            /\ est_message_tried' = 0
            /\ UNCHANGED <<client_socket, is_connected, handshaken, closes>>
    /\ pc' = "est_done"
    /\ UNCHANGED <<config, current_command, callInfo, tried_count, client_connected,
                   est_last_exception, attempts, sendLocals, raised, returned, iterations,
                   connects, status_sends, sent_status, orphaned, delivered_command,
                   command_res>>
    /\ UNCHANGED frameVars

\* _establish_connection is left: its locals are gone.
EstablishLeft ==
    /\ tried_count' = 0
    /\ client_connected' = FALSE
    /\ est_last_exception' = "unset"
    /\ est_result' = "none"
    /\ est_message_tried' = 0

\* __init__ after _establish_connection: it returns, or the exception leaves it.
InitAfterEstablish ==
    /\ pc = "est_done"
    /\ call = "__init__"
    /\ raised' = (IF est_result = "returned" THEN "None" ELSE est_result)
    /\ pc' = "done"
    /\ EstablishLeft
    /\ UNCHANGED <<config, client_socket, is_connected, current_command, callInfo,
                   sendLocals, returned, attempts, iterations, connects, status_sends,
                   sent_status, orphaned, closes, handshaken, delivered_command,
                   command_res>>
    /\ UNCHANGED frameVars

\* As HandleResponse, without the HasField test: the commandData read from
\* the response (empty when there is no deviceCommand) is stored.
HandleResponseUnchecked(reply) ==
    /\ command_res' = <<reply>>
    /\ current_command' = reply.data
    /\ delivered_command' = reply.data
    /\ raised' = "None"
    /\ pc' = "done"

\* As HandleResponse, but a response without a deviceCommand clears the
\* current command.
HandleResponseClears(reply) ==
    /\ command_res' = <<reply>>
    /\ IF reply.has
       THEN /\ current_command' = reply.data
            /\ delivered_command' = reply.data
            /\ raised' = "None"
       ELSE /\ raised' = "CommunicationError"
            /\ current_command' = "None"
            /\ UNCHANGED delivered_command
    /\ pc' = "done"

\* send_status, the end: the response must carry a deviceCommand, whose
\* commandData becomes the current command.
HandleResponse(reply) ==
    /\ command_res' = <<reply>>
    /\ IF reply.has
       THEN /\ current_command' = reply.data
            /\ delivered_command' = reply.data
            /\ raised' = "None"
       ELSE /\ raised' = "CommunicationError"
            /\ UNCHANGED <<current_command, delivered_command>>
    /\ pc' = "done"

\* send_status up to the retry loop: the guards, then the first send.
SendStatus(data, t, o) ==
    /\ pc = "idle"
    /\ StartCall("send_status")
    /\ LET rejects == SendStatusRejects(client_socket, t)
           exc == SendRequestRaises(client_socket, o.request)
       IN
       /\ timeout' = t
       /\ status_message' = (IF rejects = "None" THEN data ELSE "None")
       /\ IF rejects # "None"
          THEN /\ raised' = rejects
               /\ pc' = "done"
               /\ UNCHANGED <<is_connected, current_command, tried, last_exception,
                              status_sends, sent_status, delivered_command, command_res>>
          ELSE /\ status_sends' = (IF client_socket = "open" THEN 1 ELSE 0)
               /\ sent_status' = (IF client_socket = "open" THEN {data} ELSE {})
               /\ IF exc \in {"CommunicationError", "ServerTookTooLong"}
                  THEN /\ is_connected' = (IF variant = "internal_client" THEN FALSE
                                           ELSE is_connected)
                       /\ tried' = 0
                       /\ pc' = "retry"
                       /\ raised' = "None"
                       /\ UNCHANGED <<current_command, last_exception, delivered_command,
                                      command_res>>
                  ELSE IF exc = "None"
                  THEN /\ HandleResponse(o.reply)
                       /\ UNCHANGED <<is_connected, tried, last_exception>>
                  ELSE \* no except clause takes it: it leaves send_status
                       /\ raised' = exc
                       /\ pc' = "done"
                       /\ UNCHANGED <<is_connected, current_command, tried, last_exception,
                                      delivered_command, command_res>>
       /\ UNCHANGED <<client_socket, handshaken, closes>>
    /\ UNCHANGED <<config, establishLocals, returned>>
    /\ UNCHANGED frameVars

\* As RetryIteration, but the loop test lets one more pass through.
RetryIterationOneMore ==
    /\ pc = "retry"
    /\ tried <= SEND_RETRY_COUNT
    /\ EstablishBegin
    /\ UNCHANGED <<config, is_connected, current_command, callInfo, sendLocals, raised,
                   returned, iterations, connects, status_sends, sent_status, orphaned,
                   delivered_command, command_res>>
    /\ UNCHANGED frameVars

\* One pass of the retry loop of send_status starts: _establish_connection.
RetryIteration ==
    /\ pc = "retry"
    /\ tried < SEND_RETRY_COUNT
    /\ EstablishBegin
    /\ UNCHANGED <<config, is_connected, current_command, callInfo, sendLocals, raised,
                   returned, iterations, connects, status_sends, sent_status, orphaned,
                   delivered_command, command_res>>
    /\ UNCHANGED frameVars

\* The retry loop after _establish_connection: it returned (the status is
\* sent again next), raised a CommunicationExceptions (recorded, the loop goes
\* on) or raised a ConnectExceptions (the context is destroyed, the exception
\* leaves send_status).
RetryAfterEstablish ==
    /\ pc = "est_done"
    /\ call = "send_status"
    /\ IF est_result = "returned"
       THEN /\ pc' = "resend"
            /\ UNCHANGED <<client_socket, is_connected, handshaken, closes, tried,
                           last_exception, status_message, raised, iterations>>
       ELSE IF Retried(est_result)
       THEN /\ last_exception' = RecordLast(last_exception, est_result)
            /\ iterations' = Append(iterations, est_result)
            /\ tried' = tried + 1
            /\ pc' = "retry"
            /\ UNCHANGED <<client_socket, is_connected, handshaken, closes, status_message,
                           raised>>
       ELSE /\ destroy
            /\ raised' = est_result
            /\ iterations' = Append(iterations, est_result)
            /\ pc' = "done"
            /\ UNCHANGED <<tried, last_exception, status_message>>
    /\ EstablishLeft
    /\ attempts' = <<>>
    /\ UNCHANGED timeout
    /\ UNCHANGED <<config, current_command, callInfo, returned, connects, status_sends,
                   sent_status, orphaned, delivered_command, command_res>>
    /\ UNCHANGED frameVars

\* The retry loop after a reconnection: the status message is sent again.
Resend(o) ==
    /\ pc = "resend"
    /\ LET exc == SendRequestRaises(client_socket, o.request) IN
       /\ status_sends' = (IF client_socket = "open" THEN status_sends + 1 ELSE status_sends)
       /\ sent_status' = (IF client_socket = "open" THEN sent_status \cup {status_message}
                          ELSE sent_status)
       /\ IF Retried(exc)
          THEN /\ last_exception' = RecordLast(last_exception, exc)
               /\ iterations' = Append(iterations, exc)
               /\ tried' = tried + 1
               /\ pc' = "retry"
               /\ UNCHANGED <<current_command, status_message, timeout, raised,
                              delivered_command, command_res>>
          ELSE IF exc = "None"
          THEN /\ HandleResponse(o.reply)
               /\ iterations' = Append(iterations, "None")
               /\ UNCHANGED sendLocals
          ELSE \* no except clause takes it: it leaves send_status
               /\ raised' = exc
               /\ iterations' = Append(iterations, exc)
               /\ pc' = "done"
               /\ UNCHANGED <<current_command, sendLocals, delivered_command, command_res>>
    /\ UNCHANGED <<config, client_socket, is_connected, handshaken, closes, callInfo,
                   establishLocals, returned, connects, orphaned>>
    /\ UNCHANGED frameVars

\* As RetryExhausted, but instead of giving up the loop starts over, with
\* the counts of the call as they were when the loop was first entered.
RetryExhaustedStartsOver ==
    /\ pc = "retry"
    /\ tried >= SEND_RETRY_COUNT
    /\ tried' = 0
    /\ iterations' = <<>>
    /\ connects' = 0
    /\ status_sends' = 1
    /\ orphaned' = 0
    /\ closes' = 0
    /\ UNCHANGED <<config, client_socket, is_connected, handshaken, current_command,
                   callInfo, establishLocals, last_exception, status_message, timeout, pc,
                   raised, returned, sent_status, delivered_command, command_res>>
    /\ UNCHANGED frameVars

\* The retry loop ran SEND_RETRY_COUNT times without sending the status: the
\* context is destroyed and the last recorded exception raised.
RetryExhausted ==
    /\ pc = "retry"
    /\ tried >= SEND_RETRY_COUNT
    /\ destroy
    /\ raised' = last_exception
    /\ pc' = "done"
    /\ UNCHANGED <<config, current_command, callInfo, establishLocals, sendLocals,
                   returned, iterations, connects, status_sends, sent_status, orphaned,
                   delivered_command, command_res>>
    /\ UNCHANGED frameVars

\* As GetCommand, but returning the command consumes it.
GetCommandConsumes ==
    /\ pc = "idle"
    /\ StartCall("get_command")
    /\ IF client_socket = "None"
       THEN raised' = "ContextAlreadyDestroyed" /\ returned' = "None"
       ELSE IF current_command = "None"
       THEN raised' = "NoCommandError" /\ returned' = "None"
       ELSE raised' = "None" /\ returned' = current_command
    /\ current_command' = "None"
    /\ pc' = "done"
    /\ UNCHANGED <<config, client_socket, is_connected, handshaken, closes,
                   establishLocals, sendLocals, status_sends, sent_status,
                   delivered_command, command_res>>
    /\ UNCHANGED frameVars

\* get_command()
GetCommand ==
    /\ pc = "idle"
    /\ StartCall("get_command")
    /\ IF client_socket = "None"
       THEN raised' = "ContextAlreadyDestroyed" /\ returned' = "None"
       ELSE IF current_command = "None"
       THEN raised' = "NoCommandError" /\ returned' = "None"
       ELSE raised' = "None" /\ returned' = current_command
    /\ pc' = "done"
    /\ UNCHANGED <<config, client_socket, is_connected, current_command, handshaken,
                   closes, establishLocals, sendLocals, status_sends, sent_status,
                   delivered_command, command_res>>
    /\ UNCHANGED frameVars

\* destroy(), called by the user of the client.
Destroy ==
    /\ pc = "idle"
    /\ StartCall("destroy")
    /\ destroy
    /\ raised' = "None"
    /\ pc' = "done"
    /\ UNCHANGED <<config, current_command, establishLocals, sendLocals, returned,
                   status_sends, sent_status, delivered_command, command_res>>
    /\ UNCHANGED frameVars

\* The call is over: the caller has its result, the locals of the call are
\* gone. A constructor that raised leaves no instance to call.
Return ==
    /\ pc = "done"
    /\ pc' = (IF call = "__init__" /\ raised # "None" THEN "dead" ELSE "idle")
    /\ call' = "none"
    /\ entry' = Fields
    /\ raised' = "None"
    /\ returned' = "None"
    /\ tried' = 0
    /\ last_exception' = "unset"
    /\ status_message' = "None"
    /\ timeout' = 0
    /\ iterations' = <<>>
    /\ attempts' = <<>>
    /\ connects' = 0
    /\ status_sends' = 0
    /\ sent_status' = {}
    /\ command_res' = <<>>
    /\ orphaned' = 0
    /\ closes' = 0
    /\ UNCHANGED <<config, client_socket, is_connected, current_command, handshaken,
                   tried_count, client_connected, est_last_exception, est_result,
                   est_message_tried, delivered_command>>
    /\ UNCHANGED frameVars

(***************************************************************************)
(* The client against its transport                                        *)
(***************************************************************************)
FrameIdle ==
    /\ message = <<>>
    /\ stream = <<>>
    /\ conn_sent = <<>>
    /\ header_len = 0
    /\ response_buff = <<>>
    /\ expected_response_len = 0
    /\ retrieved = 0
    /\ fpc = "off"
    /\ result = "None"
    /\ err_expected = 0
    /\ err_got = 0
    /\ bytes_received = 0
    /\ peer_closed = "no"

\* Nothing has been called yet.
ClientFresh ==
    /\ client_socket = "None"
    /\ is_connected = FALSE
    /\ current_command = "None"
    /\ pc = "new"
    /\ call = "none"
    /\ tried_count = 0
    /\ client_connected = FALSE
    /\ est_last_exception = "unset"
    /\ est_result = "none"
    /\ est_message_tried = 0
    /\ tried = 0
    /\ last_exception = "unset"
    /\ status_message = "None"
    /\ timeout = 0
    /\ raised = "None"
    /\ returned = "None"
    /\ entry = [client_socket |-> "None", is_connected |-> FALSE, current_command |-> "None"]
    /\ attempts = <<>>
    /\ iterations = <<>>
    /\ connects = 0
    /\ status_sends = 0
    /\ sent_status = {}
    /\ command_res = <<>>
    /\ orphaned = 0
    /\ closes = 0
    /\ handshaken = FALSE
    /\ delivered_command = "None"

Init ==
    /\ variant \in Variants
    /\ CONNECTION_RETRY_COUNT \in 1..MaxConnectionRetryCount
    /\ SEND_RETRY_COUNT \in 1..MaxSendRetryCount
    /\ ClientFresh
    /\ FrameIdle

Next ==
    \/ Construct
    \/ \E o \in AttemptOutcomes : Attempt(o)
    \/ EstablishExit
    \/ InitAfterEstablish
    \/ \E d \in StatusData, t \in Timeouts, o \in ExchangeOutcomes : SendStatus(d, t, o)
    \/ RetryIteration
    \/ RetryAfterEstablish
    \/ \E o \in ExchangeOutcomes : Resend(o)
    \/ RetryExhausted
    \/ GetCommand
    \/ Destroy
    \/ Return

Spec == Init /\ [][Next]_vars

(***************************************************************************)
(* Request: one send_request() call, byte by byte                          *)
(***************************************************************************)
MaxMessageLen == 1
MaxStreamLen == 6
\* Byte values of the model.
Bytes == 0..2
\* conn.recv(1024)
RecvSize == 1024

\* All sequences over S of length at most n.
SeqsUpTo(S, n) == UNION {[1..k -> S] : k \in 0..n}

\* struct.pack(">I", n)
Pack(n) ==
    <<(n \div 16777216) % 256, (n \div 65536) % 256, (n \div 256) % 256, n % 256>>

\* As Unpack, but the first byte is read as the least significant one.
UnpackLittleEndian(b) == b[4] * 16777216 + b[3] * 65536 + b[2] * 256 + b[1]

\* struct.unpack(">I", b)[0]
Unpack(b) == b[1] * 16777216 + b[2] * 65536 + b[3] * 256 + b[4]

\* b[:n] and b[n:]
Take(b, n) == SubSeq(b, 1, IF n < Len(b) THEN n ELSE Len(b))
Drop(b, n) == SubSeq(b, n + 1, Len(b))

\* The bytes of the stream recv() has not handed over yet.
Pending == Drop(stream, bytes_received)

\* As FrameComplete, but a short payload passes.
FrameCompleteOrShort(got, expected) == got <= expected

\* The test after the payload loop: the frame is complete.
FrameComplete(got, expected) == got = expected

FrameInit ==
    /\ variant = "client_lib"
    /\ CONNECTION_RETRY_COUNT = 1
    /\ SEND_RETRY_COUNT = 1
    /\ ClientFresh
    /\ message \in SeqsUpTo(Bytes, MaxMessageLen)
    /\ stream \in SeqsUpTo(Bytes, MaxStreamLen)
    /\ conn_sent = <<>>
    /\ header_len = 0
    /\ response_buff = <<>>
    /\ expected_response_len = 0
    /\ retrieved = 0
    /\ fpc = "send"
    /\ result = "None"
    /\ err_expected = 0
    /\ err_got = 0
    /\ bytes_received = 0
    /\ peer_closed = "no"

\* send_request raises: the call is over.
FrameRaises(exc) ==
    /\ result' = exc
    /\ fpc' = "done"

\* _send: the header and the message go out in one sendall(), which writes
\* everything, times out or finds the connection broken.
Send(outcome) ==
    /\ fpc = "send"
    /\ header_len' = Len(Pack(Len(message)))
    /\ CASE outcome = "sent" ->
              /\ conn_sent' = Pack(Len(message)) \o message
              /\ fpc' = "header"
              /\ UNCHANGED result
         [] outcome = "timeout" ->
              /\ FrameRaises("TimeoutError")
              /\ UNCHANGED conn_sent
         [] outcome = "conn_error" ->
              /\ FrameRaises("ConnectionError")
              /\ UNCHANGED conn_sent
    /\ UNCHANGED <<message, response_buff, expected_response_len, retrieved, err_expected,
                   err_got, stream, bytes_received, peer_closed>>
    /\ UNCHANGED clientVars

\* What a recv(size) call can do: hand over 1..size pending bytes, return
\* b"" when the peer has closed after its last byte, time out, or find the
\* connection broken. size 0 stands for b"".
RecvOutcomes(size) ==
    {[kind |-> "data", n |-> k] :
        k \in 1..(IF Len(Pending) < size THEN Len(Pending) ELSE size)}
    \cup (IF Pending = <<>> THEN {[kind |-> "closed", n |-> 0]} ELSE {})
    \cup {[kind |-> "timeout", n |-> 0], [kind |-> "conn_error", n |-> 0]}

\* One pass of the first loop of _retrieve: recv(header_len).
RecvHeader(r) ==
    /\ fpc = "header"
    /\ Len(response_buff) < header_len
    /\ r \in RecvOutcomes(header_len)
    /\ CASE r.kind = "timeout" ->
              /\ FrameRaises("ServerTookTooLong")
              /\ UNCHANGED <<response_buff, bytes_received, peer_closed>>
         [] r.kind = "conn_error" ->
              /\ FrameRaises("ConnectionError")
              /\ UNCHANGED <<response_buff, bytes_received, peer_closed>>
         [] r.kind = "closed" ->
              /\ peer_closed' = "header"
              /\ fpc' = "header_end"
              /\ UNCHANGED <<response_buff, bytes_received, result>>
         [] r.kind = "data" ->
              /\ response_buff' = response_buff \o Take(Pending, r.n)
              /\ bytes_received' = bytes_received + r.n
              /\ fpc' = (IF Len(response_buff) + r.n < header_len THEN "header" ELSE "header_end")
              /\ UNCHANGED <<peer_closed, result>>
    /\ UNCHANGED <<message, header_len, expected_response_len, retrieved, err_expected,
                   err_got, conn_sent, stream>>
    /\ UNCHANGED clientVars

\* _retrieve between its loops: a short header raises, else the length is
\* decoded and what was read beyond the header starts the payload.
HeaderEnd ==
    /\ fpc = "header_end"
    /\ IF Len(response_buff) < header_len
       THEN /\ FrameRaises("CommunicationError")
            /\ err_expected' = header_len
            /\ err_got' = Len(response_buff)
            /\ UNCHANGED <<response_buff, expected_response_len, retrieved>>
       ELSE /\ expected_response_len' = Unpack(Take(response_buff, header_len))
            /\ response_buff' = Drop(response_buff, header_len)
            /\ retrieved' = Len(response_buff) - header_len
            /\ fpc' = (IF Len(response_buff) - header_len
                            < Unpack(Take(response_buff, header_len))
                       THEN "payload" ELSE "payload_end")
            /\ UNCHANGED <<result, err_expected, err_got>>
    /\ UNCHANGED <<message, header_len, conn_sent, stream, bytes_received, peer_closed>>
    /\ UNCHANGED clientVars

\* One pass of the second loop of _retrieve: recv(1024).
RecvPayload(r) ==
    /\ fpc = "payload"
    /\ retrieved < expected_response_len
    /\ r \in RecvOutcomes(RecvSize)
    /\ CASE r.kind = "timeout" ->
              /\ FrameRaises("ServerTookTooLong")
              /\ UNCHANGED <<response_buff, retrieved, bytes_received, peer_closed>>
         [] r.kind = "conn_error" ->
              /\ FrameRaises("ConnectionError")
              /\ UNCHANGED <<response_buff, retrieved, bytes_received, peer_closed>>
         [] r.kind = "closed" ->
              /\ peer_closed' = "payload"
              /\ fpc' = "payload_end"
              /\ UNCHANGED <<response_buff, retrieved, bytes_received, result>>
         [] r.kind = "data" ->
              /\ response_buff' = response_buff \o Take(Pending, r.n)
              /\ retrieved' = retrieved + r.n
              /\ bytes_received' = bytes_received + r.n
              /\ fpc' = (IF retrieved + r.n < expected_response_len
                         THEN "payload" ELSE "payload_end")
              /\ UNCHANGED <<peer_closed, result>>
    /\ UNCHANGED <<message, header_len, expected_response_len, err_expected, err_got,
                   conn_sent, stream>>
    /\ UNCHANGED clientVars

\* _retrieve after the payload loop: the count must be the declared one.
PayloadEnd ==
    /\ fpc = "payload_end"
    /\ IF FrameComplete(retrieved, expected_response_len)
       THEN /\ result' = "returned"
            /\ fpc' = "done"
            /\ UNCHANGED <<err_expected, err_got>>
       ELSE /\ FrameRaises("CommunicationError")
            /\ err_expected' = expected_response_len
            /\ err_got' = retrieved
    /\ UNCHANGED <<message, header_len, response_buff, expected_response_len, retrieved,
                   conn_sent, stream, bytes_received, peer_closed>>
    /\ UNCHANGED clientVars

FrameNext ==
    \/ \E outcome \in {"sent", "timeout", "conn_error"} : Send(outcome)
    \/ \E r \in RecvOutcomes(header_len) : RecvHeader(r)
    \/ HeaderEnd
    \/ \E r \in RecvOutcomes(RecvSize) : RecvPayload(r)
    \/ PayloadEnd

FrameSpec == FrameInit /\ [][FrameNext]_vars

(***************************************************************************)
(* Properties of the client (Spec)                                         *)
(***************************************************************************)
\* The rejection the protocol assigns to a responseType.
RejectionOf(code) ==
    CASE code = 1 -> "AlreadyConnected"
      [] code = 2 -> "ModuleNotSupported"
      [] code = 3 -> "DeviceNotSupported"
      [] code = 4 -> "HigherPriorityAlreadyConnected"

Accepted(a) == a.kind = "reply" /\ a.code = 0
Rejected(a) == a.kind = "reply" /\ a.code \in 1..4
Transient(a) == ~Accepted(a) /\ ~Rejected(a)

\* C1: when the server answers the handshake of a constructor with code 1, 2,
\* 3 or 4, that attempt is the last connection attempt of the constructor
\* (whatever CONNECTION_RETRY_COUNT is), _establish_connection is over, and
\* the constructor raises exactly the rejection assigned to the code.
HandshakeRejection ==
    \A i \in 1..Len(attempts) :
        (call = "__init__" /\ Rejected(attempts[i])) =>
            /\ i = Len(attempts)
            /\ connects = i
            /\ pc \in {"est_done", "done"}
            /\ pc = "est_done" => est_result = RejectionOf(attempts[i].code)
            /\ pc = "done" => raised = RejectionOf(attempts[i].code)

\* Reached: with two attempts configured, the first handshake is answered
\* with code 3 and the constructor has raised DeviceNotSupported.
HandshakeRejectionWitness ==
    /\ pc = "done"
    /\ call = "__init__"
    /\ CONNECTION_RETRY_COUNT = 2
    /\ attempts = <<[kind |-> "reply", code |-> 3]>>
    /\ raised = "DeviceNotSupported"

\* C2: every path that destroys the client leaves no handle (destroy(), a
\* send_status that ends with a rejection, a send_status whose retry
\* iterations all failed transiently), and every send_status or get_command
\* started without a handle, whatever its arguments, raises
\* ContextAlreadyDestroyed at once, makes no connection attempt, sends nothing
\* and leaves the client without a handle.
DestroyedRejectsCalls ==
    /\ (pc = "done" /\ call = "destroy") => client_socket = "None"
    /\ (pc = "done" /\ call = "send_status" /\ raised \in ConnectExceptions)
            => client_socket = "None"
    /\ (/\ pc = "done"
        /\ call = "send_status"
        /\ Len(iterations) = SEND_RETRY_COUNT
        /\ \A i \in 1..Len(iterations) : iterations[i] \in CommunicationExceptions)
            => client_socket = "None"
    /\ (call \in {"send_status", "get_command"} /\ entry.client_socket = "None") =>
            /\ pc = "done"
            /\ raised = "ContextAlreadyDestroyed"
            /\ connects = 0
            /\ status_sends = 0
            /\ client_socket = "None"

\* Reached: a client that held a command was destroyed, and a later
\* send_status with a valid timeout has raised ContextAlreadyDestroyed.
DestroyedRejectsCallsWitness ==
    /\ pc = "done"
    /\ call = "send_status"
    /\ timeout = 0
    /\ entry.client_socket = "None"
    /\ entry.current_command = "cmd1"
    /\ raised = "ContextAlreadyDestroyed"

\* C3: an invocation of _establish_connection in which every attempt failed
\* transiently made exactly CONNECTION_RETRY_COUNT attempts, left no handle
\* and raised a CommunicationExceptions; ServerTookTooLong when every attempt
\* timed out.
RetryExhaustion ==
    (pc = "est_done" /\ \A i \in 1..Len(attempts) : Transient(attempts[i])) =>
        /\ Len(attempts) = CONNECTION_RETRY_COUNT
        /\ client_socket = "None"
        /\ est_result \in CommunicationExceptions
        /\ (\A i \in 1..Len(attempts) : attempts[i].kind = "timeout")
                => est_result = "ServerTookTooLong"

\* C4: the first attempt that connects and whose handshake is answered OK is
\* the last attempt of the invocation, and _establish_connection then returns
\* with that connection held.
FirstSuccessEndsEstablish ==
    /\ \A i \in 1..Len(attempts) :
          Accepted(attempts[i]) =>
              /\ i = Len(attempts)
              /\ pc \in {"est_exit", "est_done", "done"}
    /\ (pc = "est_done" /\ \E i \in 1..Len(attempts) : Accepted(attempts[i])) =>
          /\ est_result = "returned"
          /\ client_socket = "open"
          /\ handshaken

\* C5: when the constructor raises, no connection it opened is still open.
ConstructionFailureLeavesNoHandle ==
    (pc = "done" /\ call = "__init__" /\ raised # "None") =>
        /\ client_socket # "open"
        /\ orphaned = 0

\* C6: a get_command on a client that holds a handle raises NoCommandError as
\* long as no send_status response carried a command; afterwards it returns the
\* commandData of the last response that carried one, and changes no field.
CommandAvailability ==
    (pc = "done" /\ call = "get_command" /\ entry.client_socket # "None") =>
        /\ delivered_command = "None" => (raised = "NoCommandError" /\ returned = "None")
        /\ delivered_command # "None" => (raised = "None" /\ returned = delivered_command)
        /\ Fields = entry

\* Reached: a get_command has returned an empty command payload.
CommandAvailabilityWitness ==
    /\ pc = "done"
    /\ call = "get_command"
    /\ entry.client_socket = "open"
    /\ delivered_command = ""
    /\ raised = "None"
    /\ returned = ""

\* C7: a retry iteration of send_status that ends with a ConnectExceptions is
\* the last one: send_status is over, has raised that exception and the
\* client holds no handle, whatever is left of SEND_RETRY_COUNT.
RejectionEndsRetry ==
    \A i \in 1..Len(iterations) :
        iterations[i] \in ConnectExceptions =>
            /\ i = Len(iterations)
            /\ pc = "done"
            /\ raised = iterations[i]
            /\ client_socket = "None"

\* Reached: with two retry iterations configured, the first one ended with a
\* rejection and send_status is over.
RejectionEndsRetryWitness ==
    /\ pc = "done"
    /\ call = "send_status"
    /\ SEND_RETRY_COUNT = 2
    /\ iterations = <<"ModuleNotSupported">>
    /\ raised = "ModuleNotSupported"

\* C8: when the first send and each of the SEND_RETRY_COUNT retry iterations
\* failed transiently, send_status raises what the last iteration failed
\* with, and the client holds no handle.
ExhaustionRaisesLast ==
    (/\ pc = "done"
     /\ call = "send_status"
     /\ Len(iterations) = SEND_RETRY_COUNT
     /\ \A i \in 1..Len(iterations) : iterations[i] \in CommunicationExceptions) =>
        /\ raised = iterations[Len(iterations)]
        /\ client_socket = "None"

\* Reached: the first iteration failed with CommunicationError, the second
\* with ConnectionRefused, which is raised.
ExhaustionRaisesLastWitness ==
    /\ pc = "done"
    /\ call = "send_status"
    /\ iterations = <<"CommunicationError", "ConnectionRefused">>
    /\ raised = "ConnectionRefused"

\* C9: a send_status with a negative timeout on a client that holds a handle
\* is over at once: it raises ValueError, makes no connection attempt, sends
\* nothing and changes no field.
NegativeTimeout ==
    (call = "send_status" /\ entry.client_socket # "None" /\ timeout < 0) =>
        /\ pc = "done"
        /\ raised = "ValueError"
        /\ connects = 0
        /\ status_sends = 0
        /\ Fields = entry

\* Reached: a connected client holding a command was given timeout -1.
NegativeTimeoutWitness ==
    /\ pc = "done"
    /\ call = "send_status"
    /\ timeout = -1
    /\ entry.client_socket = "open"
    /\ entry.current_command = "cmd1"
    /\ raised = "ValueError"

\* C12: a destroy() never raises and leaves the client without a handle; it
\* calls close() once when a handle was held and not at all otherwise, so a
\* destroy() that follows a destroy() closes nothing and changes no field.
IdempotentDestroy ==
    (pc = "done" /\ call = "destroy") =>
        /\ raised = "None"
        /\ client_socket = "None"
        /\ closes = (IF entry.client_socket = "None" THEN 0 ELSE 1)
        /\ entry.client_socket = "None" => Fields = entry

\* Reached: a destroy() on a client that was connected, had received a
\* command and was destroyed before.
IdempotentDestroyWitness ==
    /\ pc = "done"
    /\ call = "destroy"
    /\ entry.client_socket = "None"
    /\ entry.current_command = "cmd1"
    /\ closes = 0
    /\ raised = "None"

\* C13: once a constructed client holds no handle (destroy() released it, be
\* it the destroy() of _establish_connection inside the retry loop), no step
\* of any operation gives it a handle again.
DestroyedIsTerminal ==
    [][(pc # "new" /\ call # "__init__" /\ client_socket = "None")
            => client_socket' = "None"]_vars

\* C14: the connections a call has opened and not closed are at most one, the
\* one the client holds: the connection of a failed attempt is closed before
\* the next attempt opens its own.
AtMostOneConnection ==
    orphaned + (IF client_socket = "open" THEN 1 ELSE 0) <= 1

\* C15 as stated: in every state of a constructed client of the
\* internal_client variant, is_connected is true exactly when the client
\* holds a handle.
HandleIffConnected ==
    (variant = "internal_client" /\ pc \notin {"new", "dead"} /\ call # "__init__") =>
        (is_connected <=> client_socket # "None")

\* C15, amended: whenever no call is in progress on a constructed client of
\* the internal_client variant (before a call and when it is over),
\* is_connected is true exactly when the client holds a handle.
HandleIffConnectedBetweenCalls ==
    (/\ variant = "internal_client"
     /\ pc \in {"idle", "done"}
     /\ call = "__init__" => raised = "None") =>
        (is_connected <=> client_socket # "None")

\* Reached: a send_status whose first send failed (the flag was cleared while
\* the handle was held) has reconnected, resent and returned.
HandleIffConnectedWitness ==
    /\ variant = "internal_client"
    /\ pc = "done"
    /\ call = "send_status"
    /\ iterations = <<"None">>
    /\ raised = "None"
    /\ is_connected
    /\ client_socket = "open"

\* C16: every status message a send_status transmits carries the payload it
\* was given; a retry iteration whose resend brings a response is the last
\* one, comes after iterations that failed transiently, each of which went
\* through _establish_connection, and when the response carries a command
\* send_status returns with that command stored and the client connected:
\* it holds an open connection whose handshake was answered OK.
ReconnectAndResend ==
    call = "send_status" =>
        /\ sent_status \subseteq {status_message}
        /\ \A i \in 1..Len(iterations) :
              iterations[i] = "None" =>
                  /\ i = Len(iterations)
                  /\ pc = "done"
                  /\ \A j \in 1..(i - 1) : iterations[j] \in CommunicationExceptions
                  /\ connects >= i
                  /\ status_sends >= 2
                  /\ command_res # <<>>
                  /\ command_res[1].has =>
                        /\ raised = "None"
                        /\ current_command = command_res[1].data
                        /\ client_socket = "open"
                        /\ handshaken
                        /\ variant = "internal_client" => is_connected

\* C17: a timeout is a failure of the transient kind wherever it strikes: an
\* attempt of the connect loop that timed out is recorded as
\* ServerTookTooLong, and no call and no _establish_connection ends with the
\* timeout of the socket itself, an error outside the taxonomy.
TimeoutIsTransient ==
    /\ (pc \in {"establish", "est_exit"} /\ attempts # <<>>
            /\ attempts[Len(attempts)].kind = "timeout")
            => est_last_exception = "ServerTookTooLong"
    /\ est_result # "TimeoutError"
    /\ raised # "TimeoutError"

\* C18: when a status request went through and its response carries no
\* deviceCommand, send_status is over and has raised CommunicationError; the
\* current command is the one before the call and the client still holds
\* the connection the response came over. When it was the first send that was
\* answered, no connection attempt and no second send was made, nothing was
\* closed and no field has changed.
MissingCommand ==
    (call = "send_status" /\ command_res # <<>> /\ ~command_res[1].has) =>
        /\ pc = "done"
        /\ raised = "CommunicationError"
        /\ current_command = entry.current_command
        /\ client_socket = "open"
        /\ iterations # <<>> => iterations[Len(iterations)] = "None"
        /\ iterations = <<>> =>
              /\ connects = 0
              /\ status_sends = 1
              /\ closes = 0
              /\ Fields = entry

\* Reached: a client that holds a command gets a response without a
\* deviceCommand to its first send.
MissingCommandWitness ==
    /\ pc = "done"
    /\ call = "send_status"
    /\ command_res = <<NoReply>>
    /\ iterations = <<>>
    /\ entry.current_command = "cmd1"
    /\ current_command = "cmd1"
    /\ raised = "CommunicationError"

\* C19: the current command changes only in the step that ends a send_status
\* without an exception, whose response carries a deviceCommand, and it then
\* is the commandData of that response; no other step of any call, destroy()
\* included, sets or clears it.
CommandChangesOnlyOnResponse ==
    [][current_command' # current_command =>
          /\ call' = "send_status"
          /\ pc' = "done"
          /\ raised' = "None"
          /\ command_res' # <<>>
          /\ command_res'[1].has
          /\ current_command' = command_res'[1].data]_vars

\* Reached: a send_status has replaced the command "cmd1" by the empty
\* command of its response.
CommandChangesOnlyOnResponseWitness ==
    /\ pc = "done"
    /\ call = "send_status"
    /\ raised = "None"
    /\ entry.current_command = "cmd1"
    /\ command_res = <<[has |-> TRUE, code |-> 0, data |-> ""]>>
    /\ current_command = ""

\* C20: what the last attempt of a running connect loop was answered decides
\* its outcome. A response without connect response, or with a responseType
\* other than 0..4, is a CommunicationError: a transient failure that used up
\* one attempt, after which the loop goes on iff attempts are left. Code 0
\* sets the connected flag with the connection held. Codes 1..4 end
\* _establish_connection with the rejection assigned to the code. A
\* constructor all of whose attempts were answered with code 0 returns, and
\* the client holds an open, handshaken connection and reports connected.
HandshakeOutcome ==
    /\ \A i \in 1..Len(attempts) :
          Rejected(attempts[i]) =>
              /\ i = Len(attempts)
              /\ pc \in {"est_done", "done"}
              /\ pc = "est_done" => est_result = RejectionOf(attempts[i].code)
    /\ (pc \in {"establish", "est_exit"} /\ attempts # <<>>) =>
          LET a == attempts[Len(attempts)] IN
          /\ a.kind = "malformed" =>
                /\ est_last_exception = "CommunicationError"
                /\ tried_count = Len(attempts)
                /\ pc = "establish" <=> Len(attempts) < CONNECTION_RETRY_COUNT
          /\ Accepted(a) =>
                /\ ConnectedFlag
                /\ client_socket = "open"
                /\ handshaken
    /\ (/\ pc = "done"
        /\ call = "__init__"
        /\ \A i \in 1..Len(attempts) : Accepted(attempts[i])) =>
          /\ raised = "None"
          /\ client_socket = "open"
          /\ handshaken
          /\ variant = "internal_client" => is_connected

\* Reached: the first handshake of a constructor was answered with the
\* unknown code 5, the second with code 0, and the constructor has returned.
HandshakeOutcomeWitness ==
    /\ pc = "done"
    /\ call = "__init__"
    /\ attempts = <<[kind |-> "malformed", code |-> 5], [kind |-> "reply", code |-> 0]>>
    /\ raised = "None"
    /\ client_socket = "open"

\* The kind of failure the protocol assigns to what was seen of an attempt.
RecordedKind(a) ==
    CASE a.kind = "timeout"                   -> "ServerTookTooLong"
      [] a.kind \in {"refused", "conn_error"} -> "ConnectionRefused"
      [] a.kind = "malformed"                 -> "CommunicationError"

\* C21: the CommunicationExceptions that _establish_connection raises after
\* its loop is of the kind of the last attempt made, whatever the earlier
\* attempts failed with, and the count in its message is the number of
\* attempts that were made.
LastAttemptKind ==
    (pc = "est_done" /\ est_result \in CommunicationExceptions) =>
        /\ attempts # <<>>
        /\ Transient(attempts[Len(attempts)])
        /\ est_result = RecordedKind(attempts[Len(attempts)])
        /\ est_message_tried = Len(attempts)

\* Reached: the first attempt timed out, the second was refused, and
\* ConnectionRefused is raised with "Tried 2 times".
LastAttemptKindWitness ==
    /\ pc = "est_done"
    /\ attempts = <<[kind |-> "timeout", code |-> 0], [kind |-> "refused", code |-> 0]>>
    /\ est_result = "ConnectionRefused"
    /\ est_message_tried = 2

\* C22: when _establish_connection returns, one attempt of this invocation
\* connected and had its handshake answered OK, and the client holds an open
\* connection that has been through that handshake.
ReturnsOnOwnSuccess ==
    (pc = "est_done" /\ est_result = "returned") =>
        /\ \E i \in 1..Len(attempts) : Accepted(attempts[i])
        /\ client_socket = "open"
        /\ handshaken

\* C23: a send_status puts the status message on a connection at most
\* 1 + SEND_RETRY_COUNT times and calls create_connection() at most
\* SEND_RETRY_COUNT * CONNECTION_RETRY_COUNT times; when its first send is
\* answered it makes no connection attempt and sends once.
TransmissionBounds ==
    call = "send_status" =>
        /\ status_sends <= 1 + SEND_RETRY_COUNT
        /\ Cardinality(sent_status) <= 1
        /\ connects <= SEND_RETRY_COUNT * CONNECTION_RETRY_COUNT
        /\ (iterations = <<>> /\ command_res # <<>>) =>
              /\ connects = 0
              /\ status_sends = 1

\* Reached: with both counts 2, a send_status has sent three times and
\* connected four times.
TransmissionBoundsWitness ==
    /\ pc = "done"
    /\ call = "send_status"
    /\ SEND_RETRY_COUNT = 2
    /\ CONNECTION_RETRY_COUNT = 2
    /\ status_sends = 3
    /\ connects = 4

(***************************************************************************)
(* Properties of the framing (FrameSpec)                                   *)
(***************************************************************************)
\* C10: when the peer closes before the 4 bytes of the length prefix have
\* arrived, or after them and before the declared number of payload bytes,
\* send_request raises CommunicationError, whose message carries the expected
\* count (4, or the declared length) and the count that arrived.
TruncatedResponse ==
    /\ (fpc = "done" /\ peer_closed = "header") =>
            /\ result = "CommunicationError"
            /\ err_expected = 4
            /\ err_got = bytes_received
            /\ bytes_received < 4
    /\ (fpc = "done" /\ peer_closed = "payload") =>
            /\ result = "CommunicationError"
            /\ err_expected = Unpack(Take(stream, 4))
            /\ err_got = bytes_received - 4
            /\ bytes_received - 4 < Unpack(Take(stream, 4))

\* Reached: the peer declared 2 bytes, sent 1 and closed.
TruncatedResponseWitness ==
    /\ fpc = "done"
    /\ peer_closed = "payload"
    /\ stream = <<0, 0, 0, 2, 1>>
    /\ result = "CommunicationError"
    /\ err_expected = 2
    /\ err_got = 1

TerminationInit == Init \/ FrameInit

TerminationNext ==
    \/ fpc = "off" /\ Next
    \/ FrameNext

\* The steps of a call that is under way. The client runs in the thread of
\* its caller and every transport operation returns, raises or times out
\* (the socket has a timeout set): the next statement is always executed.
CallStep ==
    /\ fpc = "off"
    /\ \/ \E o \in AttemptOutcomes : Attempt(o)
       \/ EstablishExit
       \/ InitAfterEstablish
       \/ RetryIteration
       \/ RetryAfterEstablish
       \/ \E o \in ExchangeOutcomes : Resend(o)
       \/ RetryExhausted

\* When a call starts and which one is up to the caller; once it is under
\* way its steps are taken.
TerminationSpec ==
    /\ TerminationInit
    /\ [][TerminationNext]_vars
    /\ WF_vars(CallStep)
    /\ WF_vars(FrameNext)

\* A call of the client is under way / a send_request is under way.
InCall == pc \in {"establish", "est_exit", "est_done", "retry", "resend"}
InRequest == fpc \in {"send", "header", "header_end", "payload", "payload_end"}

\* The largest length a header of bytes of the model declares.
MaxDeclared ==
    LET m == CHOOSE b \in Bytes : \A c \in Bytes : c <= b IN Unpack(<<m, m, m, m>>)

\* An upper bound of the steps a call under way still has to take: the
\* passes the two loops may still make, and the steps around them.
CallMeasure ==
    LET pass == CONNECTION_RETRY_COUNT + 4
        later == IF call = "send_status" THEN (SEND_RETRY_COUNT - tried - 1) * pass + 1 ELSE 0
    IN CASE pc = "retry"     -> (SEND_RETRY_COUNT - tried) * pass + 1
         [] pc = "establish" -> later + (CONNECTION_RETRY_COUNT - tried_count) + 3
         [] pc = "est_exit"  -> later + 3
         [] pc = "est_done"  -> later + 2
         [] pc = "resend"    -> later + 1
         [] OTHER            -> 0

\* The same for a send_request: the bytes its two read loops still wait for.
RequestMeasure ==
    CASE fpc = "send"        -> MaxDeclared + 7
      [] fpc = "header"      -> MaxDeclared + 2 + (header_len - Len(response_buff))
      [] fpc = "header_end"  -> MaxDeclared + 2
      [] fpc = "payload"     -> (expected_response_len - retrieved) + 1
      [] fpc = "payload_end" -> 1
      [] OTHER               -> 0

\* C24: a constructor, a send_status or a send_request that is under way
\* always has a next step, and every step it takes, whatever the transport,
\* the server or the peer do and in whatever chunks recv() hands the bytes
\* over, lowers a measure that is never negative: with the steps being taken
\* (the fairness of TerminationSpec) the call ends, returning or raising.
\* get_command and destroy are over in the step that starts them.
CallsTerminate ==
    /\ [][(InCall \/ InRequest) =>
            CallMeasure' + RequestMeasure' < CallMeasure + RequestMeasure]_vars
    /\ [](CallMeasure >= 0 /\ RequestMeasure >= 0)
    /\ [](InCall => ENABLED CallStep)
    /\ [](InRequest => ENABLED FrameNext)
    /\ [](call \in {"get_command", "destroy"} => pc = "done")

\* Reached: a send_status that went through two retry iterations of two
\* connection attempts each has ended.
CallsTerminateWitness ==
    /\ pc = "done"
    /\ call = "send_status"
    /\ Len(iterations) = 2
    /\ connects = 4
====
